---- MODULE Spec2Model ----
(***************************************************************************)
(* A model of package pubsub (src/pubsub/pubsub.go): a publish/subscribe   *)
(* broker whose router is a trie of topics, owned by one actor goroutine   *)
(* (config.Process) that serves the commands of concurrent callers.        *)
(***************************************************************************)
EXTENDS Integers, Sequences, FiniteSets, TLC

\* Bounds of the model.
MaxOps == 3        \* commands issued by all callers together
MaxCap == 2        \* capacity of the buffered subscriber channel
MaxLiveOps == 2    \* commands issued where whole behaviours are checked

\* The inputs: callers, subscriber channels, topics and values.
Callers == {"c1", "c2"}
Handles == {"h1", "h2"}
Topics == {<< >>, <<"a">>, <<"a", "b">>, <<"c">>}
Values == {"v1"}
NoCaller == "none"

\* The capacity the subscriber gave its channel: h1 is buffered, h2 is not.
Cap(ch) == IF ch = "h1" THEN MaxCap ELSE 0

VARIABLES
    rr,        \* the router of Process: node path -> subscribers of that node
    chans,     \* each subscriber channel: buffer, blocked receiver, closes
    panicked,  \* a send on a closed channel or a second close happened
    apc,       \* the actor's position in Process
    cur,       \* the caller whose command the actor is serving
    cpc,       \* each caller's position in Publish / Subscribe / Unsubscribe
    cmd,       \* the command each caller sent
    done,      \* each caller's done channel has been closed
    applied,   \* the router operation of each caller's command has run
    exit,      \* the exit channel has been closed
    issued,    \* the number of commands issued so far
    res,       \* what each caller's call returned
    last,      \* the last command the actor applied, and its effect
    reg,       \* the (ch, topic) subscribed with success and not unsubscribed
    ever       \* the channels that a Subscribe has registered

vars == <<rr, chans, panicked, apc, cur, cpc, cmd, done, applied, res, exit,
          issued, last, reg, ever>>

----------------------------------------------------------------------------
\* Topics and the trie.

IsPrefix(p, q) == Len(p) <= Len(q) /\ SubSeq(q, 1, Len(p)) = p

\* router{subscribers: {}, topics: {}}: a trie holding the root node only.
EmptyRouter == (<< >> :> {})

\* ch is in the subscribers map of the node at path p.
Registered(r, ch, p) == p \in DOMAIN r /\ ch \in r[p]

\* The paths at which ch is registered.
PathsOf(r, ch) == {p \in DOMAIN r : ch \in r[p]}

----------------------------------------------------------------------------
\* Subscriber channels.

NewChan == [buf |-> << >>, rcv |-> FALSE, closes |-> 0]

\* The number of values ch accepts without blocking.
Room(cs, ch) == (Cap(ch) - Len(cs[ch].buf)) + (IF cs[ch].rcv THEN 1 ELSE 0)

\* The number of values ch accepted between two channel states of one publish.
Accepted(pre, post, ch) ==
    (Len(post[ch].buf) - Len(pre[ch].buf))
        + (IF pre[ch].rcv /\ ~post[ch].rcv THEN 1 ELSE 0)

\* select { case ch <- v: default: }
TrySend(st, ch, v) ==
    LET c == st.chans[ch] IN
    IF c.closes > 0 THEN [st EXCEPT !.panicked = TRUE]
    ELSE IF c.rcv THEN [st EXCEPT !.chans[ch].rcv = FALSE]
    ELSE IF Len(c.buf) < Cap(ch)
         THEN [st EXCEPT !.chans[ch].buf = Append(@, v)]
    ELSE st

\* for ch := range r.subscribers { select { case ch <- v: default: } }
RECURSIVE SendAll(_, _, _)
SendAll(S, st, v) ==
    IF S = {} THEN st
    ELSE LET ch == CHOOSE x \in S : TRUE
         IN SendAll(S \ {ch}, TrySend(st, ch, v), v)

\* close(ch)
CloseChan(st, ch) ==
    IF st.chans[ch].closes > 0
    THEN [st EXCEPT !.panicked = TRUE, !.chans[ch].closes = @ + 1]
    ELSE [st EXCEPT !.chans[ch].closes = 1, !.chans[ch].rcv = FALSE]

----------------------------------------------------------------------------
\* The router's operations.

\* subscribe taking a duplicate for a request to drop the registration.
RECURSIVE subscribe_DupDrops(_, _, _, _)
subscribe_DupDrops(r, at, ch, topic) ==
    IF Len(topic) = 0
    THEN IF ch \in r[at]
         THEN [r |-> [r EXCEPT ![at] = @ \ {ch}],
               err |-> "DuplicateSubscription"]
         ELSE [r |-> [r EXCEPT ![at] = @ \cup {ch}], err |-> "nil"]
    ELSE LET child == Append(at, Head(topic))
             r1 == IF child \in DOMAIN r THEN r ELSE r @@ (child :> {})
         IN subscribe_DupDrops(r1, child, ch, Tail(topic))

\* subscribe rejecting a channel that is registered at any node.
RECURSIVE subscribe_AnyPath(_, _, _, _)
subscribe_AnyPath(r, at, ch, topic) ==
    IF Len(topic) = 0
    THEN IF \E p \in DOMAIN r : ch \in r[p]
         THEN [r |-> r, err |-> "DuplicateSubscription"]
         ELSE [r |-> [r EXCEPT ![at] = @ \cup {ch}], err |-> "nil"]
    ELSE LET child == Append(at, Head(topic))
             r1 == IF child \in DOMAIN r THEN r ELSE r @@ (child :> {})
         IN subscribe_AnyPath(r1, child, ch, Tail(topic))

RECURSIVE subscribe(_, _, _, _)
subscribe(r, at, ch, topic) ==
    IF Len(topic) = 0
    THEN IF ch \in r[at]
         THEN [r |-> r, err |-> "DuplicateSubscription"]
         ELSE [r |-> [r EXCEPT ![at] = @ \cup {ch}], err |-> "nil"]
    ELSE LET child == Append(at, Head(topic))
             r1 == IF child \in DOMAIN r THEN r ELSE r @@ (child :> {})
         IN subscribe(r1, child, ch, Tail(topic))

\* unsubscribe deleting a node that it leaves with no subscriber.
RECURSIVE unsubscribe_Pruning(_, _, _, _)
unsubscribe_Pruning(r, at, ch, topics) ==
    IF Len(topics) = 0
    THEN IF at # << >> /\ r[at] \ {ch} = {}
         THEN [p \in DOMAIN r \ {at} |-> r[p]]
         ELSE [r EXCEPT ![at] = @ \ {ch}]
    ELSE LET child == Append(at, Head(topics))
         IN IF child \notin DOMAIN r THEN r
            ELSE unsubscribe_Pruning(r, child, ch, Tail(topics))

\* unsubscribe deleting the channel at every node it walks through.
RECURSIVE unsubscribe_AlongPath(_, _, _, _)
unsubscribe_AlongPath(r, at, ch, topics) ==
    LET r1 == [r EXCEPT ![at] = @ \ {ch}] IN
    IF Len(topics) = 0 THEN r1
    ELSE LET child == Append(at, Head(topics))
         IN IF child \notin DOMAIN r1 THEN r1
            ELSE unsubscribe_AlongPath(r1, child, ch, Tail(topics))

\* unsubscribe walking the trie as subscribe does, creating missing nodes.
RECURSIVE unsubscribe_Creating(_, _, _, _)
unsubscribe_Creating(r, at, ch, topics) ==
    IF Len(topics) = 0
    THEN [r EXCEPT ![at] = @ \ {ch}]
    ELSE LET child == Append(at, Head(topics))
             r1 == IF child \in DOMAIN r THEN r ELSE r @@ (child :> {})
         IN unsubscribe_Creating(r1, child, ch, Tail(topics))

RECURSIVE unsubscribe(_, _, _, _)
unsubscribe(r, at, ch, topics) ==
    IF Len(topics) = 0
    THEN [r EXCEPT ![at] = @ \ {ch}]
    ELSE LET child == Append(at, Head(topics))
         IN IF child \notin DOMAIN r THEN r
            ELSE unsubscribe(r, child, ch, Tail(topics))

\* publish without the recursion into the matching child.
publish_NoDescent(r, at, st, v, topics) == SendAll(r[at], st, v)

\* publish going on, at the end of the path, into every child.
RECURSIVE publish_Downwards(_, _, _, _, _)
RECURSIVE publish_Each(_, _, _, _)
publish_Downwards(r, at, st, v, topics) ==
    LET st1 == SendAll(r[at], st, v) IN
    IF Len(topics) = 0
    THEN publish_Each(r, {p \in DOMAIN r : Len(p) = Len(at) + 1
                                           /\ SubSeq(p, 1, Len(at)) = at},
                      st1, v)
    ELSE LET child == Append(at, Head(topics))
         IN IF child \notin DOMAIN r THEN st1
            ELSE publish_Downwards(r, child, st1, v, Tail(topics))

publish_Each(r, S, st, v) ==
    IF S = {} THEN st
    ELSE LET p == CHOOSE x \in S : TRUE
         IN publish_Each(r, S \ {p}, publish_Downwards(r, p, st, v, << >>), v)

RECURSIVE publish(_, _, _, _, _)
publish(r, at, st, v, topics) ==
    LET st1 == SendAll(r[at], st, v) IN
    IF Len(topics) = 0 THEN st1
    ELSE LET child == Append(at, Head(topics))
         IN IF child \notin DOMAIN r THEN st1
            ELSE publish(r, child, st1, v, Tail(topics))

\* The children of the node at path `at`: the values of its topics map.
Children(r, at) ==
    {p \in DOMAIN r : Len(p) = Len(at) + 1 /\ IsPrefix(at, p)}

\* CloseSubs without the closed set: every registration is closed.
RECURSIVE CloseSubs_NoDedup(_, _)
CloseSubs_NoDedup(S, st) ==
    IF S = {} THEN st
    ELSE LET ch == CHOOSE x \in S : TRUE
         IN CloseSubs_NoDedup(S \ {ch}, CloseChan(st, ch))

\* for ch := range r.subscribers { if closed[ch] { continue }; ...; close(ch) }
RECURSIVE CloseSubs(_, _)
CloseSubs(S, st) ==
    IF S = {} THEN st
    ELSE LET ch == CHOOSE x \in S : TRUE
             st1 == IF ch \in st.closed THEN st
                    ELSE CloseChan([st EXCEPT !.closed = @ \cup {ch}], ch)
         IN CloseSubs(S \ {ch}, st1)

RECURSIVE close(_, _, _)
RECURSIVE CloseEach(_, _, _)
close(r, at, st) == CloseEach(r, Children(r, at), CloseSubs(r[at], st))

\* for _, r2 := range r.topics { r2.close(closed) }
CloseEach(r, S, st) ==
    IF S = {} THEN st
    ELSE LET p == CHOOSE x \in S : TRUE
         IN CloseEach(r, S \ {p}, close(r, p, st))

----------------------------------------------------------------------------
\* Commands.

NoCmd == [op |-> "none", topic |-> << >>, ch |-> "-", v |-> "-"]

Commands ==
    [op : {"publish"}, topic : Topics, ch : {"-"}, v : Values]
        \cup [op : {"subscribe", "unsubscribe"}, topic : Topics,
              ch : Handles, v : {"-"}]

ZeroCount == [h \in Handles |-> 0]

NoLast == [op |-> "none", topic |-> << >>, ch |-> "-", err |-> "-",
           pre |-> EmptyRouter, room |-> ZeroCount, acc |-> ZeroCount]

NoRes == [val |-> "-", was |-> FALSE, applied |-> FALSE]

----------------------------------------------------------------------------
Init ==
    /\ rr = EmptyRouter
    /\ chans = [h \in Handles |-> NewChan]
    /\ panicked = FALSE
    /\ apc = "select"
    /\ cur = NoCaller
    /\ cpc = [c \in Callers |-> "idle"]
    /\ cmd = [c \in Callers |-> NoCmd]
    /\ done = [c \in Callers |-> FALSE]
    /\ applied = [c \in Callers |-> FALSE]
    /\ exit = FALSE
    /\ issued = 0
    /\ last = NoLast
    /\ res = [c \in Callers |-> NoRes]
    /\ reg = {}
    /\ ever = {}

\* A caller enters Publish, Subscribe or Unsubscribe: it makes its done channel
\* and blocks sending its command, which nothing sees before the actor takes it.
Call(c) ==
    /\ cpc[c] = "idle"
    /\ issued < MaxOps
    /\ cpc' = [cpc EXCEPT ![c] = "send"]
    /\ res' = [res EXCEPT ![c] = NoRes]
    /\ issued' = issued + 1
    /\ UNCHANGED <<rr, chans, panicked, apc, cur, cmd, done, applied, exit,
                   last,
                   reg, ever>>

\* Take by an actor that receives a command while it is serving another.
Take_Unserialized(c, k) ==
    /\ apc \in {"select", "apply", "ack"}
    /\ cpc[c] = "send"
    /\ apc' = "apply"
    /\ cur' = c
    /\ cmd' = [cmd EXCEPT ![c] = k]
    /\ cpc' = [cpc EXCEPT ![c] = "wait"]
    /\ UNCHANGED <<rr, chans, panicked, done, applied, res, exit, issued,
                   last,
                   reg, ever>>

\* Take by an actor whose loop goes on after the exit case.
Take_AfterStop(c, k) ==
    /\ apc \in {"select", "stopped"}
    /\ cpc[c] = "send"
    /\ apc' = "apply"
    /\ cur' = c
    /\ cmd' = [cmd EXCEPT ![c] = k]
    /\ cpc' = [cpc EXCEPT ![c] = "wait"]
    /\ UNCHANGED <<rr, chans, panicked, done, applied, res, exit, issued,
                   last, reg, ever>>

\* The select of Process receives the command k that caller c is sending.
Take(c, k) ==
    /\ apc = "select"
    /\ cpc[c] = "send"
    /\ apc' = "apply"
    /\ cur' = c
    /\ cmd' = [cmd EXCEPT ![c] = k]
    /\ cpc' = [cpc EXCEPT ![c] = "wait"]
    /\ UNCHANGED <<rr, chans, panicked, done, applied, res, exit, issued,
                   last,
                   reg, ever>>

\* ApplyPublish with blocking sends (ch <- v outside a select): the actor
\* goes on only when every subscriber on the path can accept the value.
ApplyPublish_Blocking ==
    /\ apc = "apply"
    /\ cmd[cur].op = "publish"
    /\ \A h \in Handles :
        (\E p \in PathsOf(rr, h) : IsPrefix(p, cmd[cur].topic)) =>
            Room(chans, h) > 0
    /\ LET st == publish(rr, << >>, [chans |-> chans, panicked |-> panicked],
                         cmd[cur].v, cmd[cur].topic)
       IN /\ chans' = st.chans
          /\ panicked' = st.panicked
          /\ last' = [op |-> "publish", topic |-> cmd[cur].topic, ch |-> "-",
                      err |-> "-", pre |-> rr,
                      room |-> [h \in Handles |-> Room(chans, h)],
                      acc |-> [h \in Handles |-> Accepted(chans, st.chans, h)]]
    /\ apc' = "ack"
    /\ applied' = [applied EXCEPT ![cur] = TRUE]
    /\ UNCHANGED <<rr, cur, cpc, cmd, done, res, exit, issued,
                   reg, ever>>

\* rr.publish(p.v, p.topic...)
ApplyPublish ==
    /\ apc = "apply"
    /\ cmd[cur].op = "publish"
    /\ LET st == publish(rr, << >>, [chans |-> chans, panicked |-> panicked],
                         cmd[cur].v, cmd[cur].topic)
       IN /\ chans' = st.chans
          /\ panicked' = st.panicked
          /\ last' = [op |-> "publish", topic |-> cmd[cur].topic, ch |-> "-",
                      err |-> "-", pre |-> rr,
                      room |-> [h \in Handles |-> Room(chans, h)],
                      acc |-> [h \in Handles |-> Accepted(chans, st.chans, h)]]
    /\ apc' = "ack"
    /\ applied' = [applied EXCEPT ![cur] = TRUE]
    /\ UNCHANGED <<rr, cur, cpc, cmd, done, res, exit, issued,
                   reg, ever>>

\* err := rr.subscribe(s.ch, s.topic...)
ApplySubscribe ==
    /\ apc = "apply"
    /\ cmd[cur].op = "subscribe"
    /\ LET out == subscribe(rr, << >>, cmd[cur].ch, cmd[cur].topic)
       IN /\ rr' = out.r
          /\ last' = [op |-> "subscribe", topic |-> cmd[cur].topic,
                      ch |-> cmd[cur].ch, err |-> out.err, pre |-> rr,
                      room |-> ZeroCount, acc |-> ZeroCount]
          /\ reg' = IF out.err = "nil"
                    THEN reg \cup {<<cmd[cur].ch, cmd[cur].topic>>} ELSE reg
          /\ ever' = IF out.err = "nil" THEN ever \cup {cmd[cur].ch} ELSE ever
    /\ apc' = "ack"
    /\ applied' = [applied EXCEPT ![cur] = TRUE]
    /\ UNCHANGED <<chans, panicked, cur, cpc, cmd, done, res, exit, issued>>

\* ApplyUnsubscribe closing the channel it removes.
ApplyUnsubscribe_Closing ==
    /\ apc = "apply"
    /\ cmd[cur].op = "unsubscribe"
    /\ rr' = unsubscribe(rr, << >>, cmd[cur].ch, cmd[cur].topic)
    /\ LET st == IF Registered(rr, cmd[cur].ch, cmd[cur].topic)
                 THEN CloseChan([chans |-> chans, panicked |-> panicked],
                                cmd[cur].ch)
                 ELSE [chans |-> chans, panicked |-> panicked]
       IN /\ chans' = st.chans
          /\ panicked' = st.panicked
    /\ last' = [op |-> "unsubscribe", topic |-> cmd[cur].topic,
                ch |-> cmd[cur].ch, err |-> "-", pre |-> rr,
                room |-> ZeroCount, acc |-> ZeroCount]
    /\ reg' = reg \ {<<cmd[cur].ch, cmd[cur].topic>>}
    /\ apc' = "ack"
    /\ applied' = [applied EXCEPT ![cur] = TRUE]
    /\ UNCHANGED <<cur, cpc, cmd, done, res, exit, issued, ever>>

\* rr.unsubscribe(u.ch, u.topic...)
ApplyUnsubscribe ==
    /\ apc = "apply"
    /\ cmd[cur].op = "unsubscribe"
    /\ rr' = unsubscribe(rr, << >>, cmd[cur].ch, cmd[cur].topic)
    /\ last' = [op |-> "unsubscribe", topic |-> cmd[cur].topic,
                ch |-> cmd[cur].ch, err |-> "-", pre |-> rr,
                room |-> ZeroCount, acc |-> ZeroCount]
    /\ reg' = reg \ {<<cmd[cur].ch, cmd[cur].topic>>}
    /\ apc' = "ack"
    /\ applied' = [applied EXCEPT ![cur] = TRUE]
    /\ UNCHANGED <<chans, panicked, cur, cpc, cmd, done, res, exit, issued,
                   ever>>

\* close(p.done) and close(u.done)
AckClose ==
    /\ apc = "ack"
    /\ cmd[cur].op \in {"publish", "unsubscribe"}
    /\ done' = [done EXCEPT ![cur] = TRUE]
    /\ apc' = "select"
    /\ cur' = NoCaller
    /\ UNCHANGED <<rr, chans, panicked, cpc, cmd, applied, res, exit, issued,
                   last,
                   reg, ever>>

\* s.done <- err, met by the caller's return <-done in Subscribe.
AckErr ==
    /\ apc = "ack"
    /\ cmd[cur].op = "subscribe"
    /\ cpc[cur] = "wait"
    /\ res' = [res EXCEPT ![cur] =
                  [val |-> last.err,
                   was |-> Registered(last.pre, cmd[cur].ch, cmd[cur].topic),
                   applied |-> applied[cur]]]
    /\ cpc' = [cpc EXCEPT ![cur] = "idle"]
    /\ cmd' = [cmd EXCEPT ![cur] = NoCmd]
    /\ applied' = [applied EXCEPT ![cur] = FALSE]
    /\ apc' = "select"
    /\ cur' = NoCaller
    /\ UNCHANGED <<rr, chans, panicked, done, exit, issued, last,
                   reg, ever>>

\* Return by a caller that does not wait for its done channel.
Return_NoWait(c) ==
    /\ cpc[c] = "wait"
    /\ cmd[c].op \in {"publish", "unsubscribe"}
    /\ res' = [res EXCEPT ![c] =
                  [val |-> "returned", was |-> FALSE, applied |-> applied[c]]]
    /\ cpc' = [cpc EXCEPT ![c] = "idle"]
    /\ UNCHANGED <<rr, chans, panicked, apc, cur, cmd, done, applied, exit,
                   issued, last,
                   reg, ever>>

\* <-done in Publish and Unsubscribe: the caller resumes and returns.
Return(c) ==
    /\ cpc[c] = "wait"
    /\ done[c]
    /\ res' = [res EXCEPT ![c] =
                  [val |-> "returned", was |-> FALSE, applied |-> applied[c]]]
    /\ cpc' = [cpc EXCEPT ![c] = "idle"]
    /\ cmd' = [cmd EXCEPT ![c] = NoCmd]
    /\ done' = [done EXCEPT ![c] = FALSE]
    /\ applied' = [applied EXCEPT ![c] = FALSE]
    /\ UNCHANGED <<rr, chans, panicked, apc, cur, exit, issued, last,
                   reg, ever>>

\* The owner of the exit channel closes it.
FireExit ==
    /\ ~exit
    /\ exit' = TRUE
    /\ UNCHANGED <<rr, chans, panicked, apc, cur, cpc, cmd, done, applied, res,
                   issued, last,
                   reg, ever>>

\* Shutdown taken without the exit signal (a default case in the select).
Shutdown_Unasked ==
    /\ apc = "select"
    /\ LET st == close(rr, << >>, [chans |-> chans, panicked |-> panicked,
                                   closed |-> {}])
       IN /\ chans' = st.chans
          /\ panicked' = st.panicked
    /\ apc' = "stopped"
    /\ UNCHANGED <<rr, cur, cpc, cmd, done, applied, res, exit, issued, last,
                   reg, ever>>

\* Shutdown without the return: the loop goes on after closing.
Shutdown_KeepRunning ==
    /\ apc = "select"
    /\ exit
    /\ LET st == close(rr, << >>, [chans |-> chans, panicked |-> panicked,
                                   closed |-> {}])
       IN /\ chans' = st.chans
          /\ panicked' = st.panicked
    /\ apc' = "select"
    /\ UNCHANGED <<rr, cur, cpc, cmd, done, applied, res, exit, issued, last,
                   reg, ever>>

\* case <-exit: rr.close(make(map[chan<- T]struct{})); return
Shutdown ==
    /\ apc = "select"
    /\ exit
    /\ LET st == close(rr, << >>, [chans |-> chans, panicked |-> panicked,
                                   closed |-> {}])
       IN /\ chans' = st.chans
          /\ panicked' = st.panicked
    /\ apc' = "stopped"
    /\ UNCHANGED <<rr, cur, cpc, cmd, done, applied, res, exit, issued, last,
                   reg, ever>>

\* A subscriber takes a value from its channel's buffer.
Receive(h) ==
    /\ Len(chans[h].buf) > 0
    /\ chans' = [chans EXCEPT ![h].buf = Tail(@)]
    /\ UNCHANGED <<rr, panicked, apc, cur, cpc, cmd, done, applied, res, exit,
                   issued, last,
                   reg, ever>>

\* A subscriber blocks in a receive on its open, unbuffered channel (on a
\* buffered channel the free slots of the buffer are what a sender finds).
Await(h) ==
    /\ Cap(h) = 0
    /\ Len(chans[h].buf) = 0
    /\ ~chans[h].rcv
    /\ chans[h].closes = 0
    /\ chans' = [chans EXCEPT ![h].rcv = TRUE]
    /\ UNCHANGED <<rr, panicked, apc, cur, cpc, cmd, done, applied, res, exit,
                   issued, last,
                   reg, ever>>

Next ==
    \/ \E c \in Callers : Call(c)
    \/ \E c \in Callers, k \in Commands : Take(c, k)
    \/ ApplyPublish
    \/ ApplySubscribe
    \/ ApplyUnsubscribe
    \/ AckClose
    \/ AckErr
    \/ \E c \in Callers : Return(c)
    \/ FireExit
    \/ Shutdown
    \/ \E h \in Handles : Receive(h)
    \/ \E h \in Handles : Await(h)

Spec == Init /\ [][Next]_vars

\* The scheduling the Go runtime gives the code: the actor goroutine and a
\* caller that can resume keep running, and a select that is reached again
\* and again takes every case that is ready again and again (it chooses among
\* the ready cases at random, and senders queue on a channel in order). The
\* callers, the subscribers and the owner of the exit channel owe nothing.
ActorStep ==
    ApplyPublish \/ ApplySubscribe \/ ApplyUnsubscribe \/ AckClose \/ AckErr

Fairness ==
    /\ WF_vars(ActorStep)
    /\ \A c \in Callers : WF_vars(Return(c))
    /\ \A c \in Callers : SF_vars(\E k \in Commands : Take(c, k))
    /\ SF_vars(Shutdown)

\* The program with fewer calls, for the properties of whole behaviours.
LiveCall(c) == issued < MaxLiveOps /\ Call(c)

LiveNext ==
    \/ \E c \in Callers : LiveCall(c)
    \/ \E c \in Callers, k \in Commands : Take(c, k)
    \/ ApplyPublish
    \/ ApplySubscribe
    \/ ApplyUnsubscribe
    \/ AckClose
    \/ AckErr
    \/ \E c \in Callers : Return(c)
    \/ FireExit
    \/ Shutdown
    \/ \E h \in Handles : Receive(h)
    \/ \E h \in Handles : Await(h)

LiveSpec == Init /\ [][LiveNext]_vars /\ Fairness

----------------------------------------------------------------------------
\* What the claims speak of.

\* The paths at which ch was registered when the last command was applied
\* and that are prefixes of that command's topic.
PrefixRegs(ch) == {p \in PathsOf(last.pre, ch) : IsPrefix(p, last.topic)}

\* C1: a publish at P, processed while the broker runs, is received by every
\* handle registered at that moment at a prefix of P (the root and P
\* included) that can accept a value immediately.
C1_PrefixDelivery ==
    last.op = "publish" =>
        \A h \in Handles :
            (PrefixRegs(h) # {} /\ last.room[h] > 0) => last.acc[h] >= 1

\* A publish at [a, b] reached h1, registered at [a], and h2, registered at
\* the root.
C1_Witness ==
    /\ last.op = "publish"
    /\ last.topic = <<"a", "b">>
    /\ PathsOf(last.pre, "h1") = {<<"a">>}
    /\ PathsOf(last.pre, "h2") = {<< >>}
    /\ last.acc["h1"] = 1
    /\ last.acc["h2"] = 1

\* C2: a publish at P delivers nothing to a handle registered at no prefix
\* of P, whether it is registered at an extension of P or at a sibling path.
C2_NoLeakage ==
    last.op = "publish" =>
        \A h \in Handles : PrefixRegs(h) = {} => last.acc[h] = 0

\* A publish at [a] left alone h1, registered at [a, b] and ready, and h2,
\* registered at [c] and ready.
C2_Witness ==
    /\ last.op = "publish"
    /\ last.topic = <<"a">>
    /\ PathsOf(last.pre, "h1") = {<<"a", "b">>}
    /\ PathsOf(last.pre, "h2") = {<<"c">>}
    /\ last.room["h1"] > 0
    /\ last.room["h2"] > 0
    /\ last.acc["h1"] = 0
    /\ last.acc["h2"] = 0

\* C3: Subscribe(H, P) returns DuplicateSubscription exactly when H is
\* registered at P itself; otherwise it returns nil and H is registered at P.
C3_DuplicateRejection ==
    /\ last.op = "subscribe" =>
        /\ last.err \in {"nil", "DuplicateSubscription"}
        /\ last.err = "DuplicateSubscription"
               <=> Registered(last.pre, last.ch, last.topic)
        /\ Registered(rr, last.ch, last.topic)
    /\ \A c \in Callers :
        res[c].val \in {"nil", "DuplicateSubscription"} =>
            (res[c].val = "DuplicateSubscription" <=> res[c].was)

\* A Subscribe returned nil for a handle that was registered at another path,
\* and a caller holds a DuplicateSubscription.
C3_Witness ==
    /\ last.op = "subscribe"
    /\ last.err = "nil"
    /\ PathsOf(last.pre, last.ch) # {}
    /\ \E c \in Callers : res[c].val = "DuplicateSubscription"

\* C4: when the exit signal is handled, every handle registered at one or
\* more paths is closed exactly once.
C4_CloseOnce ==
    apc = "stopped" =>
        /\ ~panicked
        /\ \A h \in Handles : PathsOf(rr, h) # {} => chans[h].closes = 1

\* The broker stopped with h1 registered at three paths and closed once.
C4_Witness ==
    /\ apc = "stopped"
    /\ Cardinality(PathsOf(rr, "h1")) = 3
    /\ chans["h1"].closes = 1

\* C5: Unsubscribe(H, P) removes H from the node of P and changes no other
\* registration; a publish reaches a handle only through its registrations.
C5_UnsubscribeFrame ==
    /\ last.op = "unsubscribe" =>
        /\ ~Registered(rr, last.ch, last.topic)
        /\ DOMAIN rr = DOMAIN last.pre
        /\ \A p \in DOMAIN rr :
            rr[p] = IF p = last.topic THEN last.pre[p] \ {last.ch}
                    ELSE last.pre[p]
    /\ last.op = "publish" =>
        \A h \in Handles : last.acc[h] <= Cardinality(PrefixRegs(h))

\* An Unsubscribe removed a handle from a path and left it registered at
\* another one.
C5_Witness ==
    /\ last.op = "unsubscribe"
    /\ Registered(last.pre, last.ch, last.topic)
    /\ ~Registered(rr, last.ch, last.topic)
    /\ PathsOf(rr, last.ch) # {}

\* C6: an Unsubscribe of a handle that is not registered at the path changes
\* neither a subscriber set nor the set of nodes, and repeating any
\* Unsubscribe changes nothing.
C6_IdempotentUnsubscribe ==
    last.op = "unsubscribe" =>
        /\ ~Registered(last.pre, last.ch, last.topic) => rr = last.pre
        /\ unsubscribe(rr, << >>, last.ch, last.topic) = rr
        /\ ~panicked

\* An Unsubscribe at [a, b] found no node for its path in a router that
\* holds the handle at another path.
C6_Witness ==
    /\ last.op = "unsubscribe"
    /\ last.topic = <<"a", "b">>
    /\ last.topic \notin DOMAIN last.pre
    /\ PathsOf(last.pre, last.ch) # {}
    /\ rr = last.pre

\* C7: a subscriber that cannot accept the value does not stop the publish:
\* it alone misses the value, every ready subscriber at a prefix gets it, and
\* the actor can always go on from the routing to the acknowledgement.
C7_BestEffort ==
    /\ (last.op = "publish"
            /\ \E u \in Handles : PrefixRegs(u) # {} /\ last.room[u] = 0) =>
        \A h \in Handles :
            PrefixRegs(h) # {} =>
                IF last.room[h] = 0 THEN last.acc[h] = 0 ELSE last.acc[h] >= 1
    /\ (apc = "apply" /\ cmd[cur].op = "publish") => ENABLED ApplyPublish
    /\ (apc = "ack" /\ cmd[cur].op = "publish") => ENABLED AckClose

\* A publish skipped h2, which was not ready, and reached h1.
C7_Witness ==
    /\ last.op = "publish"
    /\ PrefixRegs("h1") # {}
    /\ PrefixRegs("h2") # {}
    /\ last.room["h2"] = 0
    /\ last.acc["h2"] = 0
    /\ last.acc["h1"] = 1
    /\ \E c \in Callers : res[c].val = "returned"

\* C8: a call returns only after the actor has run its router operation: a
\* done channel is closed, and a caller has resumed, only once the command
\* has been applied.
C8_Synchronous ==
    \A c \in Callers :
        /\ done[c] => applied[c]
        /\ res[c].val # "-" => res[c].applied

\* A Publish that delivered a value has returned to its caller.
C8_Witness ==
    /\ last.op = "publish"
    /\ \E h \in Handles : last.acc[h] >= 1
    /\ apc = "select"
    /\ \E c \in Callers : res[c].val = "returned" /\ res[c].applied
    /\ \A c \in Callers : cpc[c] = "idle"

\* C9: a single publish delivers its value to each handle at most once, also
\* to a handle registered at several prefixes of the path.
C9_AtMostOnce ==
    last.op = "publish" => \A h \in Handles : last.acc[h] <= 1

\* The counterexample's case: h1, registered at the root and at [a] with room
\* for two values, took the value of one publish at [a] twice.
C9_Twice ==
    /\ last.op = "publish"
    /\ last.topic = <<"a">>
    /\ PathsOf(last.pre, "h1") = {<< >>, <<"a">>}
    /\ last.acc["h1"] = 2

\* The actor is about to apply the command op(ch, topic).
Serving(op, ch, topic) ==
    /\ apc = "apply"
    /\ cmd[cur].op = op
    /\ cmd[cur].ch = ch
    /\ cmd[cur].topic = topic

C10_State ==
    /\ cur # NoCaller <=> apc \in {"apply", "ack"}
    /\ cur # NoCaller => cpc[cur] = "wait" /\ ~done[cur]
    /\ \A c \in Callers :
        (cpc[c] = "wait" /\ c # cur) => (done[c] /\ applied[c])
    /\ (apc = "ack" /\ cmd[cur].op = "subscribe") =>
        Registered(rr, cmd[cur].ch, cmd[cur].topic)
    /\ (apc = "ack" /\ cmd[cur].op = "unsubscribe") =>
        ~Registered(rr, cmd[cur].ch, cmd[cur].topic)

C10_Step ==
    /\ rr' # rr => (apc = "apply" /\ apc' = "ack")
    /\ \A h \in Handles, p \in Topics :
        /\ (Registered(rr, h, p) /\ ~Registered(rr', h, p)) =>
            Serving("unsubscribe", h, p)
        /\ (~Registered(rr, h, p) /\ Registered(rr', h, p)) =>
            Serving("subscribe", h, p)
    /\ (apc = "apply" /\ apc' = "ack" /\ cmd[cur].op = "publish") =>
        \A h \in Handles :
            /\ ((\E p \in PathsOf(rr, h) : IsPrefix(p, cmd[cur].topic))
                    /\ Room(chans, h) > 0) => Accepted(chans, chans', h) >= 1
            /\ (\A p \in PathsOf(rr, h) : ~IsPrefix(p, cmd[cur].topic))
                    => Accepted(chans, chans', h) = 0

\* C10: the actor serves one command at a time, the router changes only in
\* the actor's step that applies a command, and what a served command did is
\* what every later command finds: a registration is there when its Subscribe
\* is acknowledged and stays until an Unsubscribe of it is applied, it is
\* gone when its Unsubscribe is acknowledged and stays away until a Subscribe
\* of it is applied, and a publish delivers by the registrations it finds.
C10_Atomicity == []C10_State /\ [][C10_Step]_vars

\* While one caller is blocked in its send, the actor has routed the other
\* caller's publish to a handle that an earlier Subscribe registered.
C10_Witness ==
    \E c, d \in Callers :
        /\ c # d
        /\ cpc[c] = "send"
        /\ cur = d
        /\ apc = "ack"
        /\ cmd[d].op = "publish"
        /\ \E h \in Handles : PrefixRegs(h) # {} /\ last.acc[h] >= 1

\* C11: as long as the exit signal has not fired, every call that a caller
\* has entered returns, whatever the subscribers' buffers hold: a call is
\* followed by its return or by the exit signal.
C11_CallsReturn ==
    \A c \in Callers :
        (cpc[c] \in {"send", "wait"}) ~> (cpc[c] = "idle" \/ exit)

\* With no exit signal, a Publish returned although a subscriber on its path
\* could not accept the value.
C11_Witness ==
    /\ ~exit
    /\ last.op = "publish"
    /\ \E h \in Handles : PrefixRegs(h) # {} /\ last.room[h] = 0
    /\ \E c \in Callers : res[c].val = "returned"
    /\ \A c \in Callers : cpc[c] = "idle"

\* C12: Process stays in its loop, closing no channel, until the exit signal
\* has fired, and once it has fired Process closes the subscribers and returns,
\* also while callers are sending commands.
C12_RunUntilExit ==
    /\ [](~exit => (apc # "stopped" /\ \A h \in Handles : chans[h].closes = 0))
    /\ exit ~> (apc = "stopped")

\* Process has returned after the exit signal, having closed a subscriber,
\* with a caller still sending a command.
C12_Witness ==
    /\ exit
    /\ apc = "stopped"
    /\ \E h \in Handles : chans[h].closes = 1
    /\ \E c \in Callers : cpc[c] = "send"

C13_Step ==
    apc = "stopped" =>
        /\ apc' = "stopped"
        /\ rr' = rr
        /\ cur' = cur
        /\ last' = last
        /\ \A c \in Callers :
            /\ cpc[c] = "send" => cpc'[c] = "send"
            /\ ~done[c] => ~done'[c]

\* C13: once Process has handled the exit signal it stays stopped and neither
\* takes, applies nor acknowledges a command, so a call whose command it had
\* not taken stays blocked in its send for ever.
C13_ShutdownRace == [][C13_Step]_vars

\* Process served a command and then returned, and a caller is blocked
\* sending a command that nobody will receive.
C13_Witness ==
    /\ apc = "stopped"
    /\ \E c \in Callers :
        /\ cpc[c] = "send"
        /\ ~ENABLED (\E k \in Commands : Take(c, k))
    /\ last.op # "none"

\* C14: after Unsubscribe(ch, topic) of a channel subscribed at that topic, the
\* channel has been closed.
C14_UnsubscribeCloses ==
    (last.op = "unsubscribe" /\ Registered(last.pre, last.ch, last.topic)) =>
        chans[last.ch].closes >= 1

\* The counterexample's case: an Unsubscribe has returned, its channel is
\* registered nowhere and is open.
C14_LeftOpen ==
    /\ last.op = "unsubscribe"
    /\ Registered(last.pre, last.ch, last.topic)
    /\ PathsOf(rr, last.ch) = {}
    /\ chans[last.ch].closes = 0
    /\ \A c \in Callers : cpc[c] = "idle"

C16_AllTornDown ==
    apc = "stopped" => \A h \in ever : chans[h].closes = 1

\* The counterexample's case: Process has shut down and a channel that was
\* registered and then unsubscribed is open.
C16_Forgotten ==
    /\ apc = "stopped"
    /\ \E h \in ever : PathsOf(rr, h) = {} /\ chans[h].closes = 0

C17_Step ==
    apc = "stopped" =>
        /\ last' = last
        /\ \A h \in Handles :
            /\ Len(chans'[h].buf) <= Len(chans[h].buf)
            /\ chans'[h].closes = chans[h].closes

\* C17: nothing is sent on a channel that has been closed (no send or close
\* panics), channels are closed only as Process stops, and after that no
\* publish is routed and no channel takes a value.
C17_NoDeliveryAfterClose ==
    /\ [](~panicked)
    /\ [](\A h \in Handles : chans[h].closes > 0 => apc = "stopped")
    /\ [][C17_Step]_vars

\* Process has shut down and closed h1, which still holds a value published
\* before, while a caller is sending a command.
C17_Witness ==
    /\ apc = "stopped"
    /\ chans["h1"].closes = 1
    /\ Len(chans["h1"].buf) >= 1
    /\ \E c \in Callers : cpc[c] = "send"

\* The prefixes of a topic: the nodes a Subscribe at it walks through.
Prefixes(p) == {SubSeq(p, 1, n) : n \in 0..Len(p)}

\* C18: the node paths are closed under prefixes and only grow: a Subscribe
\* adds the missing nodes of its path, a Publish and an Unsubscribe (also one
\* that empties a subscriber set) add and remove none.
C18_NodesOnlyGrow ==
    /\ \A p \in DOMAIN rr : Prefixes(p) \subseteq DOMAIN rr
    /\ last.op = "none" => DOMAIN rr = {<< >>}
    /\ last.op = "subscribe" =>
        DOMAIN rr = DOMAIN last.pre \cup Prefixes(last.topic)
    /\ last.op \in {"publish", "unsubscribe"} => DOMAIN rr = DOMAIN last.pre

\* An Unsubscribe at [a, b] emptied the subscriber set of that node, and the
\* node is still there.
C18_Witness ==
    /\ last.op = "unsubscribe"
    /\ last.topic = <<"a", "b">>
    /\ last.topic \in DOMAIN last.pre
    /\ last.pre[last.topic] = {last.ch}
    /\ last.topic \in DOMAIN rr
    /\ rr[last.topic] = {}

\* C19: a Subscribe that returns DuplicateSubscription leaves the router as
\* it was, with the channel registered at the path, from where one
\* Unsubscribe removes it.
C19_RejectedSubscribe ==
    (last.op = "subscribe" /\ last.err = "DuplicateSubscription") =>
        /\ rr = last.pre
        /\ Registered(rr, last.ch, last.topic)
        /\ ~Registered(unsubscribe(rr, << >>, last.ch, last.topic),
                       last.ch, last.topic)

\* A Subscribe at [a, b] was rejected and the router is as before.
C19_Witness ==
    /\ last.op = "subscribe"
    /\ last.err = "DuplicateSubscription"
    /\ last.topic = <<"a", "b">>
    /\ rr = last.pre
    /\ \E c \in Callers : res[c].val = "DuplicateSubscription"

\* C20: the subscriber set of the node of every path is the set of channels
\* subscribed there with success and not unsubscribed since, and a Publish
\* changes no subscriber set.
C20_Refinement ==
    /\ \A p \in Topics :
        {h \in Handles : Registered(rr, h, p)}
            = {h \in Handles : <<h, p>> \in reg}
    /\ last.op = "publish" => rr = last.pre

\* After a Subscribe, an Unsubscribe of it and a Subscribe of another channel,
\* the trie holds the one registration that is left.
C20_Witness ==
    /\ Cardinality(reg) = 1
    /\ Cardinality(ever) = 2
    /\ \E h \in Handles : PathsOf(rr, h) = {<<"a", "b">>}

====
